---- MODULE Spec2Model ----
(***************************************************************************)
(* Legal Document Splitter: the job lifecycle orchestrator of main.py.     *)
(*                                                                         *)
(* One event loop runs the HTTP handlers and the background workers.  A    *)
(* coroutine gives the loop away only at an await that really suspends:    *)
(* upload_documents at `await file.read()`, every handler when it returns. *)
(* process_documents_job contains no await, so a worker holds the loop     *)
(* from its first statement to its last; the variable `running` names the  *)
(* worker that holds it.  cleanup_job (download) is a plain function, which *)
(* the framework runs on a pool thread, beside the loop.                   *)
(***************************************************************************)
EXTENDS Integers, Sequences, FiniteSets, TLC

\* ---------------------------------------------------------------- bounds
MaxJobs == 2        \* job identifiers ever allocated (uuid4 values)
MaxTime == 2        \* clock ticks (one tick = one hour)
MaxArticles == 1    \* articles segmentation finds in one document
MaxServed == 2      \* archives handed out in one run

\* ------------------------------------------------------ program constants
CLEANUP_TIMEOUT == 1                      \* timedelta(hours=1)
TEMP_DIR == <<"tmp", "jobs">>             \* Path("/tmp/jobs")
allowed_extensions == {".docx", ".pdf"}

\* JobStatus
PENDING == "pending"
PROCESSING == "processing"
COMPLETED == "completed"
FAILED == "failed"

\* Optional[T]: None is the empty sequence, a value v is <<v>>.
None == <<>>
Some(v) == <<v>>

VARIABLES
    now,        \* datetime.now(), in hours
    jobs,       \* the registry: job id -> job record (a dict)
    dirs,       \* directories that exist
    files,      \* regular files that exist
    uploads,    \* upload requests suspended at `await file.read()`
    task,       \* background workers: job id -> position and locals
    running,    \* the worker holding the event loop, or None
    cleanups,   \* cleanup_job threads per job: scheduled / between rmtree and del
    resp,       \* the response the step just taken has sent, or NoResp
    nextId,     \* job identifiers allocated so far
    outside,    \* history: the paths each job has written or read outside its workspace
    served,     \* history: archives handed out per job
    seg,        \* segment_into_articles: the sentence stream and the locals
    enr,        \* extract_keywords_and_topic: the tokens and the locals
    sav         \* save_articles_to_markdown: the article and the file name

\* the document pipeline of processor.py, one variable per function
pipe == <<seg, enr, sav>>

vars == <<now, jobs, dirs, files, uploads, task, running, cleanups, resp,
          nextId, outside, served, seg, enr, sav>>

\* ------------------------------------------------------------ identifiers
JobId(n) == "j" \o ToString(n)
JobIds == {JobId(n) : n \in 1..MaxJobs}

\* ------------------------------------------------------------------ paths
\* A path is the sequence of its components.  An uploaded file name is the
\* client's string: directory components (possibly ".."), stem, extension.
FileName(d, s, e) == [dir |-> d, stem |-> s, ext |-> e]

PlainDocx == FileName(<<>>, "a", ".docx")
TextFile == FileName(<<>>, "c", ".txt")
ClimbingPdf == FileName(<<"..", "..">>, "x", ".PDF")

\* the file lists a client submits: none, a valid file beside an invalid one,
\* one document, two documents
FileLists ==
    { <<>>,
      <<PlainDocx, TextFile>>,
      <<PlainDocx>>,
      <<PlainDocx, ClimbingPdf>> }

\* str.lower() on the extensions in use
Lower(s) ==
    CASE s = ".PDF" -> ".pdf"
      [] s = ".DOCX" -> ".docx"
      [] s = ".TXT" -> ".txt"
      [] OTHER -> s

\* Path(file.filename).suffix.lower()
Suffix(f) == Lower(f.ext)

\* Path(...).name and Path(...).stem of uploads_dir / file.filename
BaseName(f) == f.stem \o f.ext
Stem(f) == f.stem

\* base / name: pathlib keeps ".." components as they are
Join(base, f) == base \o f.dir \o <<BaseName(f)>>

RECURSIVE Resolve(_)
\* what the kernel opens for a path: ".." steps to the parent
Resolve(p) ==
    IF p = <<>> THEN <<>>
    ELSE LET r == Resolve(SubSeq(p, 1, Len(p) - 1))
             c == p[Len(p)]
         IN  IF c = ".."
             THEN (IF r = <<>> THEN <<>> ELSE SubSeq(r, 1, Len(r) - 1))
             ELSE Append(r, c)

IsPrefix(d, p) == Len(d) <= Len(p) /\ SubSeq(p, 1, Len(d)) = d
Parent(p) == SubSeq(p, 1, Len(p) - 1)

job_dir(j) == TEMP_DIR \o <<j>>
uploads_dir(j) == job_dir(j) \o <<"uploads">>
output_base_dir(j) == job_dir(j) \o <<"output">>
merged_output_dir(j) == output_base_dir(j) \o <<"merged_articles">>
zip_path(j) == job_dir(j) \o <<j \o ".zip">>

\* the paths of P that lie outside the workspace of job j
Outside(j, P) == {p \in P : ~IsPrefix(job_dir(j), p)}

\* shutil.rmtree(d, ignore_errors=True) on a set of paths
Rmtree(d, S) == {p \in S : ~IsPrefix(d, p)}

\* open(path, "w"/"wb") succeeds when the parent directory exists
CanOpen(p, ds) == Parent(p) \in ds /\ p \notin ds

\* ------------------------------------------------------------- the registry
Remove(f, ks) == [k \in (DOMAIN f) \ ks |-> f[k]]
Put(f, k, v) == [x \in (DOMAIN f) \cup {k} |-> IF x = k THEN v ELSE f[x]]

\* a sweep that also takes the jobs whose age equals the timeout
SweepVictimsInclusive(js, t) ==
    {j \in DOMAIN js : js[j].created_at <= t - CLEANUP_TIMEOUT}

\* cleanup_old_jobs: the jobs the sweep deletes
SweepVictims(js, t) ==
    {j \in DOMAIN js : js[j].created_at < t - CLEANUP_TIMEOUT}

RECURSIVE RmtreeAll(_, _)
RmtreeAll(ds, S) ==
    IF ds = {} THEN S
    ELSE LET d == CHOOSE x \in ds : TRUE
         IN  RmtreeAll(ds \ {d}, Rmtree(d, S))

\* the job record upload_documents registers
NewJob(t, n, mm) ==
    [status |-> PENDING, progress |-> 0,
     message |-> "Job queued for processing",
     created_at |-> t, files_count |-> n, merge_mode |-> mm,
     total_articles |-> None, error |-> None, zip_path |-> None]

\* ------------------------------------------------------------------ inputs
\* the sequences over S of length at most n
RECURSIVE SeqsUpTo(_, _)
SeqsUpTo(S, n) ==
    IF n = 0 THEN {<<>>}
    ELSE LET shorter == SeqsUpTo(S, n - 1)
         IN  shorter \cup {Append(s, x) : s \in {q \in shorter : Len(q) = n - 1}, x \in S}

\* a validation that looks at the first file only
FirstBadHeadOnly(fl) ==
    IF fl # <<>> /\ Suffix(fl[1]) \notin allowed_extensions THEN 1 ELSE 0

\* the validation loop: the first file with a disallowed extension, or 0
FirstBad(fl) ==
    LET bad == {i \in 1..Len(fl) : Suffix(fl[i]) \notin allowed_extensions}
    IN  IF bad = {} THEN 0 ELSE CHOOSE i \in bad : \A k \in bad : i <= k

Response(op, j, code, detail) ==
    [op |-> op, job |-> j, code |-> code, detail |-> detail]

\* no request has been answered by the step just taken
NoResp == Response("none", "", 0, "")

\* a pipeline function that has not been called
Idle == [pc |-> "idle"]

\* the service as started: no job, no request, an empty TEMP_DIR
Started ==
    /\ now = 0
    /\ jobs = <<>>
    /\ dirs = {TEMP_DIR}
    /\ files = {}
    /\ uploads = <<>>
    /\ task = <<>>
    /\ running = None
    /\ cleanups = [j \in JobIds |-> [scheduled |-> 0, mid |-> 0]]
    /\ resp = NoResp
    /\ nextId = 0
    /\ outside = [j \in JobIds |-> {}]
    /\ served = [j \in JobIds |-> 0]

Init ==
    /\ Started
    /\ seg = Idle /\ enr = Idle /\ sav = Idle

\* ------------------------------------------------------------ POST /upload
\* file.filename as the client wrote it
RECURSIVE DirStr(_)
DirStr(d) == IF d = <<>> THEN "" ELSE d[1] \o "/" \o DirStr(Tail(d))
NameStr(f) == DirStr(f.dir) \o BaseName(f)

\* the worker's locals when background_tasks.add_task schedules it; produced
\* and wrote are history: the articles_count of each document processed so
\* far, and the files written for it
NewTask(fl, mm) ==
    [pc |-> "queued", idx |-> 0, total_articles |-> 0, exc |-> None,
     file_paths |-> fl, merge_mode |-> mm, produced |-> <<>>, wrote |-> <<>>]

\* upload_documents up to its first suspension: the TTL sweep, validation,
\* the workspace, and the first file opened for writing
upload_documents(fl, mm) ==
    /\ running = None
    /\ LET victims == SweepVictims(jobs, now)
           swept == {job_dir(v) : v \in victims}
           jobs1 == Remove(jobs, victims)
           dirs1 == RmtreeAll(swept, dirs)
           files1 == RmtreeAll(swept, files)
           bad == FirstBad(fl)
       IN  IF fl = <<>>
           THEN /\ resp' = Response("upload", "", 400, "No files provided")
                /\ jobs' = jobs1 /\ dirs' = dirs1 /\ files' = files1
                /\ UNCHANGED <<uploads, nextId, outside>>
           ELSE IF bad # 0
           THEN /\ resp' = Response("upload", "", 400,
                                    "Unsupported file type: " \o NameStr(fl[bad])
                                    \o ". Only DOCX and PDF are allowed.")
                /\ jobs' = jobs1 /\ dirs' = dirs1 /\ files' = files1
                /\ UNCHANGED <<uploads, nextId, outside>>
           ELSE /\ nextId < MaxJobs
                /\ LET j == JobId(nextId + 1)
                       dirs2 == dirs1 \cup {job_dir(j), uploads_dir(j)}
                       p == Resolve(Join(uploads_dir(j), fl[1]))
                   IN  /\ nextId' = nextId + 1
                       /\ jobs' = jobs1
                       /\ dirs' = dirs2
                       /\ IF CanOpen(p, dirs2)
                          THEN /\ files' = files1 \cup {p}
                               /\ uploads' = Put(uploads, j,
                                     [files |-> fl, merge_mode |-> mm, k |-> 1])
                               /\ outside' = [outside EXCEPT ![j] = @ \cup Outside(j, {p})]
                               /\ resp' = NoResp
                          ELSE /\ files' = files1
                               /\ resp' = Response("upload", "", 500, "Internal Server Error")
                               /\ UNCHANGED <<uploads, outside>>
    /\ UNCHANGED <<now, task, running, cleanups, served>>
    /\ UNCHANGED pipe

\* upload_documents resumed after `await file.read()`: the content is written;
\* then the next file is opened, or the job is registered and its worker
\* scheduled
UploadResume(j) ==
    /\ running = None
    /\ j \in DOMAIN uploads
    /\ LET u == uploads[j]
           n == Len(u.files)
       IN  IF u.k < n
           THEN LET p == Resolve(Join(uploads_dir(j), u.files[u.k + 1]))
                IN  IF CanOpen(p, dirs)
                    THEN /\ files' = files \cup {p}
                         /\ uploads' = [uploads EXCEPT ![j].k = u.k + 1]
                         /\ outside' = [outside EXCEPT ![j] = @ \cup Outside(j, {p})]
                         /\ resp' = NoResp
                         /\ UNCHANGED <<jobs, task>>
                    ELSE /\ uploads' = Remove(uploads, {j})
                         /\ resp' = Response("upload", "", 500, "Internal Server Error")
                         /\ UNCHANGED <<jobs, task, files, outside>>
           ELSE /\ jobs' = Put(jobs, j, NewJob(now, n, u.merge_mode))
                /\ task' = Put(task, j, NewTask(u.files, u.merge_mode))
                /\ uploads' = Remove(uploads, {j})
                /\ resp' = Response("upload", j, 200,
                                    "Files uploaded successfully. Processing started.")
                /\ UNCHANGED <<files, outside>>
    /\ UNCHANGED <<now, dirs, running, cleanups, nextId, served>>
    /\ UNCHANGED pipe

\* ------------------------------------------------------ process_documents_job
\* str(e) of the exceptions extraction, the pipeline and zipfile can raise
ErrTexts == {"", "Package not found"}

\* the article headings a document can hold
ArticleIds == {"Article_1"}
ArticleLists == SeqsUpTo(ArticleIds, MaxArticles)

\* int((idx / len(file_paths)) * 90): the double product falls just below the
\* integer for these idx, len (all such pairs with len < 60)
FloatShort ==
    {<<7, 10>>, <<14, 20>>, <<21, 30>>, <<28, 40>>, <<13, 45>>, <<26, 45>>, <<35, 50>>}
\* a progress that counts the documents still to do
PyProgressCountdown(idx, n) == ((n - idx) * 90) \div n
PyProgress(idx, n) ==
    IF <<idx, n>> \in FloatShort THEN ((idx * 90) \div n) - 1 ELSE (idx * 90) \div n

\* save_articles_to_markdown: the file an article is written to
ArticleFileName(base, a) == base \o "_" \o a \o ".md"

\* the output container of document f
OutputDir(j, f, mm) ==
    IF mm THEN merged_output_dir(j) ELSE output_base_dir(j) \o <<Stem(f)>>

ProcessingMessage(idx, n, f) ==
    "Processing file " \o ToString(idx + 1) \o "/" \o ToString(n) \o ": " \o BaseName(f)

\* an except block that puts the job back in the queue
FailedRecordRequeues(rec, e) ==
    [rec EXCEPT !.status = PENDING, !.message = "Processing failed",
                !.error = Some(e), !.progress = 0]

\* an except block that forgets to reset the progress
FailedRecordKeepsProgress(rec, e) ==
    [rec EXCEPT !.status = FAILED, !.message = "Processing failed",
                !.error = Some(e)]

\* the except block
FailedRecord(rec, e) ==
    [rec EXCEPT !.status = FAILED, !.message = "Processing failed",
                !.error = Some(e), !.progress = 0]

\* an update block that leaves the progress at its last value
CompletedRecordKeepsProgress(rec, total, zp) ==
    [rec EXCEPT !.status = COMPLETED,
                !.message = "Processing completed successfully",
                !.total_articles = Some(total),
                !.zip_path = Some(zp)]

\* the "Update job status" block
CompletedRecord(rec, total, zp) ==
    [rec EXCEPT !.status = COMPLETED,
                !.message = "Processing completed successfully",
                !.progress = 100, !.total_articles = Some(total),
                !.zip_path = Some(zp)]

\* the worker starts: lines 104-116.  A job swept from the registry raises
\* KeyError at line 104 and again at line 163, inside the except block.
WorkerStart(j) ==
    /\ running = None
    /\ j \in DOMAIN task
    /\ task[j].pc = "queued"
    /\ IF j \notin DOMAIN jobs
       THEN /\ task' = Remove(task, {j})
            /\ UNCHANGED <<jobs, dirs, running>>
       ELSE /\ jobs' = [jobs EXCEPT ![j].status = PROCESSING,
                                    ![j].message = "Processing documents..."]
            /\ running' = Some(j)
            /\ IF job_dir(j) \notin dirs
               THEN /\ task' = [task EXCEPT ![j].pc = "except",
                                            ![j].exc = Some("No such file or directory")]
                    /\ dirs' = dirs
               ELSE /\ task' = [task EXCEPT ![j].pc = "loop"]
                    /\ dirs' = dirs \cup {output_base_dir(j)}
                               \cup (IF task[j].merge_mode
                                     THEN {merged_output_dir(j)} ELSE {})
    /\ resp' = NoResp
    /\ UNCHANGED <<now, files, uploads, cleanups, nextId, outside, served>>
    /\ UNCHANGED pipe

\* the head of a loop iteration: message and progress
WorkerBeginDoc(j) ==
    /\ running = Some(j)
    /\ task[j].pc = "loop"
    /\ task[j].idx < Len(task[j].file_paths)
    /\ LET t == task[j]
           n == Len(t.file_paths)
       IN  jobs' = [jobs EXCEPT
                ![j].message = ProcessingMessage(t.idx, n, t.file_paths[t.idx + 1]),
                ![j].progress = PyProgress(t.idx, n)]
    /\ task' = [task EXCEPT ![j].pc = "doc"]
    /\ resp' = NoResp
    /\ UNCHANGED <<now, dirs, files, uploads, running, cleanups, nextId, outside, served>>
    /\ UNCHANGED pipe

\* a worker that assigns the document's count to the total instead of adding it
WorkerProcessDocAssigns(j, arts) ==
    /\ running = Some(j)
    /\ task[j].pc = "doc"
    /\ LET t == task[j]
           f == t.file_paths[t.idx + 1]
           src == Resolve(Join(uploads_dir(j), f))
           out == OutputDir(j, f, t.merge_mode)
           written == {out \o <<ArticleFileName(Stem(f), arts[i])>> : i \in 1..Len(arts)}
       IN  /\ src \in files
           /\ Parent(out) \in dirs
           /\ dirs' = dirs \cup {out}
           /\ files' = files \cup written
           /\ outside' = [outside EXCEPT ![j] = @ \cup Outside(j, {src} \cup written)]
           /\ task' = [task EXCEPT ![j].pc = "loop",
                                   ![j].idx = t.idx + 1,
                                   ![j].total_articles = Len(arts),
                                   ![j].produced = Append(@, Len(arts)),
                                   ![j].wrote = Append(@, written)]
    /\ resp' = NoResp
    /\ UNCHANGED <<now, jobs, uploads, running, cleanups, nextId, served>>
    /\ UNCHANGED pipe

\* processor.process_document returns: the document's articles are written
WorkerProcessDoc(j, arts) ==
    /\ running = Some(j)
    /\ task[j].pc = "doc"
    /\ LET t == task[j]
           f == t.file_paths[t.idx + 1]
           src == Resolve(Join(uploads_dir(j), f))
           out == OutputDir(j, f, t.merge_mode)
           written == {out \o <<ArticleFileName(Stem(f), arts[i])>> : i \in 1..Len(arts)}
       IN  /\ src \in files
           /\ Parent(out) \in dirs
           /\ dirs' = dirs \cup {out}
           /\ files' = files \cup written
           /\ outside' = [outside EXCEPT ![j] = @ \cup Outside(j, {src} \cup written)]
           /\ task' = [task EXCEPT ![j].pc = "loop",
                                   ![j].idx = t.idx + 1,
                                   ![j].total_articles = t.total_articles + Len(arts),
                                   ![j].produced = Append(@, Len(arts)),
                                   ![j].wrote = Append(@, written)]
    /\ resp' = NoResp
    /\ UNCHANGED <<now, jobs, uploads, running, cleanups, nextId, served>>
    /\ UNCHANGED pipe

\* processor.process_document raises: a missing source file, or a failure of
\* extraction, segmentation or enrichment with description e
WorkerDocRaises(j, e) ==
    /\ running = Some(j)
    /\ task[j].pc = "doc"
    /\ LET t == task[j]
           f == t.file_paths[t.idx + 1]
           src == Resolve(Join(uploads_dir(j), f))
       IN  /\ (src \notin files) => e = "No such file or directory"
           /\ (src \in files) => e \in ErrTexts
           /\ outside' = [outside EXCEPT ![j] = @ \cup Outside(j, {src})]
    /\ task' = [task EXCEPT ![j].pc = "except", ![j].exc = Some(e)]
    /\ resp' = NoResp
    /\ UNCHANGED <<now, jobs, dirs, files, uploads, running, cleanups, nextId, served>>
    /\ UNCHANGED pipe

\* after the loop: lines 146-147
WorkerBeginArchive(j) ==
    /\ running = Some(j)
    /\ task[j].pc = "loop"
    /\ task[j].idx = Len(task[j].file_paths)
    /\ jobs' = [jobs EXCEPT ![j].message = "Creating archive...",
                            ![j].progress = 95]
    /\ task' = [task EXCEPT ![j].pc = "archive"]
    /\ resp' = NoResp
    /\ UNCHANGED <<now, dirs, files, uploads, running, cleanups, nextId, outside, served>>
    /\ UNCHANGED pipe

\* create_zip_archive succeeds and the job is marked completed: lines 149-157
WorkerComplete(j) ==
    /\ running = Some(j)
    /\ task[j].pc = "archive"
    /\ job_dir(j) \in dirs
    /\ files' = files \cup {zip_path(j)}
    /\ outside' = [outside EXCEPT ![j] = @ \cup Outside(j, {zip_path(j)})]
    /\ jobs' = [jobs EXCEPT ![j] =
                  CompletedRecord(@, task[j].total_articles, zip_path(j))]
    /\ task' = Remove(task, {j})
    /\ running' = None
    /\ resp' = NoResp
    /\ UNCHANGED <<now, dirs, uploads, cleanups, nextId, served>>
    /\ UNCHANGED pipe

\* create_zip_archive raises
WorkerArchiveRaises(j, e) ==
    /\ running = Some(j)
    /\ task[j].pc = "archive"
    /\ e \in ErrTexts
    /\ task' = [task EXCEPT ![j].pc = "except", ![j].exc = Some(e)]
    /\ resp' = NoResp
    /\ UNCHANGED <<now, jobs, dirs, files, uploads, running, cleanups, nextId, outside, served>>
    /\ UNCHANGED pipe

\* a worker that swallows the failure of one document and goes on with the next
WorkerExceptContinues(j) ==
    /\ running = Some(j)
    /\ task[j].pc = "except"
    /\ task' = [task EXCEPT ![j].pc = "loop", ![j].exc = None,
                            ![j].idx = IF @ < Len(task[j].file_paths) THEN @ + 1 ELSE @]
    /\ resp' = NoResp
    /\ UNCHANGED <<now, jobs, dirs, files, uploads, running, cleanups, nextId,
                   outside, served>>
    /\ UNCHANGED pipe

\* the except block: lines 161-166
WorkerExcept(j) ==
    /\ running = Some(j)
    /\ task[j].pc = "except"
    /\ jobs' = [jobs EXCEPT ![j] = FailedRecord(@, task[j].exc[1])]
    /\ task' = Remove(task, {j})
    /\ running' = None
    /\ resp' = NoResp
    /\ UNCHANGED <<now, dirs, files, uploads, cleanups, nextId, outside, served>>
    /\ UNCHANGED pipe

\* ------------------------------------------------------ GET /status/{job_id}
\* the body of a status answer: the fields get_job_status copies out of the
\* job record
JobStatusResponse(j, rec) ==
    [op |-> "status", job |-> j, code |-> 200, detail |-> "",
     status |-> rec.status, progress |-> rec.progress, message |-> rec.message,
     total_articles |-> rec.total_articles, error |-> rec.error]

\* get_job_status is a coroutine without await: it runs on the event loop, in
\* one piece, when no worker holds the loop
get_job_status(j) ==
    /\ running = None
    /\ resp' = IF j \notin DOMAIN jobs
               THEN Response("status", j, 404, "Job not found")
               ELSE JobStatusResponse(j, jobs[j])
    /\ UNCHANGED <<now, jobs, dirs, files, uploads, task, running, cleanups,
                   nextId, outside, served>>
    /\ UNCHANGED pipe

\* ---------------------------------------------------- GET /download/{job_id}
\* what download_result answers for job id j: status code and detail
DownloadOutcome(js, fs, j) ==
    IF j \notin DOMAIN js
    THEN <<404, "Job not found">>
    ELSE IF js[j].status # COMPLETED
    THEN <<400, "Job is not completed. Current status: " \o js[j].status>>
    ELSE IF js[j].zip_path = None \/ js[j].zip_path[1] \notin fs
    THEN <<404, "Result file not found">>
    ELSE <<200, "processed_articles_" \o j \o ".zip">>

RECURSIVE Sum(_, _)
Sum(f, S) ==
    IF S = {} THEN 0
    ELSE LET x == CHOOSE y \in S : TRUE IN f[x] + Sum(f, S \ {x})

\* a download that schedules the cleanup before it checks the job
ScheduledCleanupsAlways(code) == 1

\* cleanup tasks download_result schedules for an outcome
ScheduledCleanups(code) == IF code = 200 THEN 1 ELSE 0

download_result(j) ==
    /\ running = None
    /\ LET o == DownloadOutcome(jobs, files, j)
       IN  /\ (o[1] = 200) => Sum(served, JobIds) < MaxServed
           /\ resp' = Response("download", j, o[1], o[2])
           /\ cleanups' = [cleanups EXCEPT
                             ![j].scheduled = @ + ScheduledCleanups(o[1])]
           /\ served' = [served EXCEPT ![j] = IF o[1] = 200 THEN @ + 1 ELSE @]
    /\ UNCHANGED <<now, jobs, dirs, files, uploads, task, running, nextId, outside>>
    /\ UNCHANGED pipe

\* cleanup_job on its pool thread: the workspace is removed
CleanupRmtree(j) ==
    /\ cleanups[j].scheduled > 0
    /\ dirs' = Rmtree(job_dir(j), dirs)
    /\ files' = Rmtree(job_dir(j), files)
    /\ cleanups' = [cleanups EXCEPT ![j].scheduled = @ - 1, ![j].mid = @ + 1]
    /\ resp' = NoResp
    /\ UNCHANGED <<now, jobs, uploads, task, running, nextId, outside, served>>
    /\ UNCHANGED pipe

\* a cleanup_job that removes the workspace and leaves the registry entry
CleanupRegistryKeeps(js, j) == js

\* the registry after cleanup_job's `if job_id in jobs: del jobs[job_id]`
CleanupRegistry(js, j) == Remove(js, {j})

\* cleanup_job on its pool thread: the registry entry is removed
CleanupDel(j) ==
    /\ cleanups[j].mid > 0
    /\ jobs' = CleanupRegistry(jobs, j)
    /\ cleanups' = [cleanups EXCEPT ![j].mid = @ - 1]
    /\ resp' = NoResp
    /\ UNCHANGED <<now, dirs, files, uploads, task, running, nextId, outside, served>>
    /\ UNCHANGED pipe

\* time passes.  A worker never reads the clock, so an hour that passes
\* during its run is the same hour passing right after it; the sweep compares
\* ages only, so an hour that passes over an empty registry changes nothing.
Tick ==
    /\ running = None
    /\ DOMAIN jobs # {}
    /\ now < MaxTime
    /\ now' = now + 1
    /\ resp' = NoResp
    /\ UNCHANGED <<jobs, dirs, files, uploads, task, running, cleanups, nextId, outside, served>>
    /\ UNCHANGED pipe

Next ==
    \/ Tick
    \/ \E fl \in FileLists, mm \in BOOLEAN : upload_documents(fl, mm)
    \/ \E j \in JobIds : UploadResume(j)
    \/ \E j \in JobIds : WorkerStart(j)
    \/ \E j \in JobIds : WorkerBeginDoc(j)
    \/ \E j \in JobIds, arts \in ArticleLists : WorkerProcessDoc(j, arts)
    \/ \E j \in JobIds, e \in ErrTexts \cup {"No such file or directory"} :
          WorkerDocRaises(j, e)
    \/ \E j \in JobIds : WorkerBeginArchive(j)
    \/ \E j \in JobIds : WorkerComplete(j)
    \/ \E j \in JobIds, e \in ErrTexts : WorkerArchiveRaises(j, e)
    \/ \E j \in JobIds : WorkerExcept(j)
    \/ \E j \in JobIds : get_job_status(j)
    \/ \E j \in JobIds : download_result(j)
    \/ \E j \in JobIds : CleanupRmtree(j)
    \/ \E j \in JobIds : CleanupDel(j)

Spec == Init /\ [][Next]_vars

\* create_zip_archive: the arcnames of the archive, the files below output/
\* relative to it (os.walk adds files only, never an empty directory)
create_zip_archive(j, fs) ==
    {SubSeq(p, Len(output_base_dir(j)) + 1, Len(p)) :
        p \in {q \in fs : IsPrefix(output_base_dir(j), q)}}

\* ------------------------------------------- one job from accepted to ended
MaxDocs == 10       \* documents in one request

\* file.filename of the i-th document of a request
DocName(i) == FileName(<<>>, "d" \o ToString(i), ".docx")
\* the document a.docx once more, as a.pdf
SameStemPdf == FileName(<<>>, "a", ".pdf")

\* requests of 1..MaxDocs documents, and one of a law in both formats
DocumentLists ==
    {[i \in 1..n |-> DocName(i)] : n \in 1..MaxDocs} \cup {<<PlainDocx, SameStemPdf>>}

\* the state upload_documents leaves when the service, just started, has
\* accepted the request fl: files saved, job registered, worker scheduled
Accepted(fl, mm) ==
    LET j == JobId(1)
        saved == {Resolve(Join(uploads_dir(j), fl[i])) : i \in 1..Len(fl)}
    IN  /\ now = 0
        /\ jobs = Put(<<>>, j, NewJob(0, Len(fl), mm))
        /\ dirs = {TEMP_DIR, job_dir(j), uploads_dir(j)}
        /\ files = saved
        /\ uploads = <<>>
        /\ task = Put(<<>>, j, NewTask(fl, mm))
        /\ running = None
        /\ cleanups = [k \in JobIds |-> [scheduled |-> 0, mid |-> 0]]
        /\ resp = Response("upload", j, 200,
                           "Files uploaded successfully. Processing started.")
        /\ nextId = 1
        /\ outside = [k \in JobIds |-> IF k = j THEN Outside(j, saved) ELSE {}]
        /\ served = [k \in JobIds |-> 0]

WorkerInit ==
    /\ \E fl \in DocumentLists, mm \in BOOLEAN : Accepted(fl, mm)
    /\ seg = Idle /\ enr = Idle /\ sav = Idle

\* process_documents_job, from scheduled to Completed or Failed
WorkerNext ==
    \/ \E j \in JobIds : WorkerStart(j)
    \/ \E j \in JobIds : WorkerBeginDoc(j)
    \/ \E j \in JobIds, arts \in ArticleLists : WorkerProcessDoc(j, arts)
    \/ \E j \in JobIds, e \in ErrTexts : WorkerDocRaises(j, e)
    \/ \E j \in JobIds : WorkerBeginArchive(j)
    \/ \E j \in JobIds : WorkerComplete(j)
    \/ \E j \in JobIds, e \in ErrTexts : WorkerArchiveRaises(j, e)
    \/ \E j \in JobIds : WorkerExcept(j)

WorkerSpec == WorkerInit /\ [][WorkerNext]_vars

\* the orchestrator's variables, which the pipeline functions leave alone
orch == <<now, jobs, dirs, files, uploads, task, running, cleanups, resp,
          nextId, outside, served>>

\* ----------------------------------------------------- segment_into_articles
MaxSents == 4       \* sentences spaCy finds in a document

\* A text is the sequence of its words.  " " is a run of blanks, "\n" a line
\* break; "Razdel", "Glava", "Par" and "Statya" are the heading words of the
\* four patterns (section, chapter, paragraph sign, article), "1" and "2"
\* numbers, "w" any other word.
Whitespace == {" ", "\n"}
Digits == {"1", "2"}

RECURSIVE LStrip(_)
LStrip(t) == IF t # <<>> /\ Head(t) \in Whitespace THEN LStrip(Tail(t)) ELSE t
RECURSIVE RStrip(_)
RStrip(t) ==
    IF t # <<>> /\ t[Len(t)] \in Whitespace
    THEN RStrip(SubSeq(t, 1, Len(t) - 1)) ELSE t
\* str.strip()
Strip(t) == RStrip(LStrip(t))

\* re.IGNORECASE on the heading words
Fold(w) ==
    CASE w = "RAZDEL" -> "Razdel"
      [] w = "statya" -> "Statya"
      [] OTHER -> w

\* pattern.match(text) for ^\s*WORD\s+\d+ (gap needed) and ^\s*WORD\s*\d+
HeadingMatch(t, word, gap) ==
    LET u == LStrip(t)
    IN  /\ Len(u) >= 2
        /\ Fold(u[1]) = word
        /\ IF u[2] \in Whitespace
           THEN Len(u) >= 3 /\ u[3] \in Digits
           ELSE ~gap /\ u[2] \in Digits

section_start_pattern(t) == HeadingMatch(t, "Razdel", TRUE)
chapter_start_pattern(t) == HeadingMatch(t, "Glava", TRUE)
paragraph_start_pattern(t) == HeadingMatch(t, "Par", TRUE)
article_start_pattern(t) == HeadingMatch(t, "Statya", FALSE)

RECURSIVE SkipBlank(_, _)
\* \s* from position i on: the last position it consumes
SkipBlank(u, i) ==
    IF i < Len(u) /\ u[i + 1] \in Whitespace THEN SkipBlank(u, i + 1) ELSE i
RECURSIVE LineEnd(_, _)
\* (.*) from position i on: up to the line break
LineEnd(u, i) ==
    IF i < Len(u) /\ u[i + 1] # "\n" THEN LineEnd(u, i + 1) ELSE i

\* match.group(0) of a text that matches one of the four patterns: the heading
\* word, the number, an optional dot, \s* and the rest of that line
Group0(t) ==
    LET u == LStrip(t)
        num == IF u[2] \in Whitespace THEN 3 ELSE 2
        dot == IF num < Len(u) /\ u[num + 1] = "." THEN num + 1 ELSE num
        last == LineEnd(u, SkipBlank(u, dot))
    IN  SubSeq(t, 1, (Len(t) - Len(u)) + last)

\* sent.text of the sentences a document can hold
BlankSent == <<"\n">>
SectionOne == <<"Razdel", " ", "1">>
SectionTwo == <<"RAZDEL", " ", "2", ".", " ", "w">>
ChapterOne == <<"Glava", " ", "1">>
ParagraphOne == <<"Par", " ", "1">>
ArticleOne == <<"Statya", "1">>
ArticleTwo == <<" ", "statya", " ", "2", ".", " ", "w", "\n", "w">>
BodySent == <<"w", " ">>
Sentences ==
    {BlankSent, SectionOne, SectionTwo, ChapterOne, ParagraphOne, ArticleOne,
     ArticleTwo, BodySent}

\* Python truth of an Optional[str] and of a list
Truthy(x) == x # None /\ x[1] # <<>>

RECURSIVE JoinLines(_)
\* "\n".join(lines)
JoinLines(lines) ==
    IF lines = <<>> THEN <<>>
    ELSE IF Len(lines) = 1 THEN lines[1]
    ELSE lines[1] \o <<"\n">> \o JoinLines(Tail(lines))

\* Document(page_content, metadata); a key the code leaves out is None
Document(s) ==
    [page_content |-> Strip(JoinLines(s.current_article_content)),
     metadata |->
        [article_title |-> s.current_article_full_title[1],
         section_title |->
            IF Truthy(s.current_section_title) THEN s.current_section_title ELSE None,
         chapter_title |->
            IF Truthy(s.current_chapter_title) THEN s.current_chapter_title ELSE None,
         paragraph_title |->
            IF Truthy(s.current_paragraph_title)
            THEN s.current_paragraph_title ELSE None]]

\* a flush that emits whatever the accumulator holds
add_article_unguarded(s) ==
    [s EXCEPT
       !.langchain_articles =
           Append(@, [page_content |-> Strip(JoinLines(s.current_article_content)),
                      metadata |->
                         [article_title |->
                             IF s.current_article_full_title = None
                             THEN <<>> ELSE s.current_article_full_title[1],
                          section_title |-> s.current_section_title,
                          chapter_title |-> s.current_chapter_title,
                          paragraph_title |-> s.current_paragraph_title]]),
       !.opened_at = Append(@, s.opened),
       !.current_article_full_title = None,
       !.current_article_content = <<>>]

\* a flush that emits only an article with a body under its heading
add_article_needs_body(s) ==
    LET emit == /\ Truthy(s.current_article_full_title)
                /\ Len(s.current_article_content) > 1
    IN  [s EXCEPT
           !.langchain_articles = IF emit THEN Append(@, Document(s)) ELSE @,
           !.opened_at = IF emit THEN Append(@, s.opened) ELSE @,
           !.current_article_full_title = None,
           !.current_article_content = <<>>]

\* add_article_to_list: the flush.  opened and opened_at are history: the
\* sentence that opened the current article, and that of each emitted one.
add_article_to_list(s) ==
    LET emit == /\ Truthy(s.current_article_full_title)
                /\ s.current_article_content # <<>>
    IN  [s EXCEPT
           !.langchain_articles = IF emit THEN Append(@, Document(s)) ELSE @,
           !.opened_at = IF emit THEN Append(@, s.opened) ELSE @,
           !.current_article_full_title = None,
           !.current_article_content = <<>>]

\* the locals of segment_into_articles before the loop
SegLocals(sents) ==
    [pc |-> "loop", sents |-> sents, i |-> 0,
     langchain_articles |-> <<>>,
     current_article_full_title |-> None,
     current_article_content |-> <<>>,
     current_section_title |-> None,
     current_chapter_title |-> None,
     current_paragraph_title |-> None,
     opened |-> 0, opened_at |-> <<>>]

SegInit ==
    /\ Started
    /\ seg \in {SegLocals(ss) : ss \in SeqsUpTo(Sentences, MaxSents)}
    /\ enr = Idle /\ sav = Idle

\* the loop is at a sentence; sent_text is that sentence stripped
AtSentence == seg.pc = "loop" /\ seg.i < Len(seg.sents)
sent_text == Strip(seg.sents[seg.i + 1])

\* `if not sent_text: continue`
SegBlank ==
    /\ AtSentence
    /\ sent_text = <<>>
    /\ seg' = [seg EXCEPT !.i = @ + 1]
    /\ UNCHANGED <<orch, enr, sav>>

\* a section heading that leaves the chapter standing
OnSectionKeepsChapter(s, title) ==
    [s EXCEPT !.current_section_title = Some(title),
              !.current_paragraph_title = None]

\* a chapter heading that also forgets the section
OnChapterClearsSection(s, title) ==
    [s EXCEPT !.current_chapter_title = Some(title),
              !.current_section_title = None,
              !.current_paragraph_title = None]

\* the assignments of the three structural branches
OnSection(s, title) ==
    [s EXCEPT !.current_section_title = Some(title),
              !.current_chapter_title = None,
              !.current_paragraph_title = None]
OnChapter(s, title) ==
    [s EXCEPT !.current_chapter_title = Some(title),
              !.current_paragraph_title = None]
OnParagraph(s, title) ==
    [s EXCEPT !.current_paragraph_title = Some(title)]

\* `if section_match:`
SegSection ==
    /\ AtSentence
    /\ sent_text # <<>>
    /\ section_start_pattern(sent_text)
    /\ seg' = [OnSection(add_article_to_list(seg), Strip(Group0(sent_text)))
                 EXCEPT !.i = @ + 1]
    /\ UNCHANGED <<orch, enr, sav>>

\* `elif chapter_match:`
SegChapter ==
    /\ AtSentence
    /\ sent_text # <<>>
    /\ ~section_start_pattern(sent_text)
    /\ chapter_start_pattern(sent_text)
    /\ seg' = [OnChapter(add_article_to_list(seg), Strip(Group0(sent_text)))
                 EXCEPT !.i = @ + 1]
    /\ UNCHANGED <<orch, enr, sav>>

\* `elif paragraph_match:`
SegParagraph ==
    /\ AtSentence
    /\ sent_text # <<>>
    /\ ~section_start_pattern(sent_text)
    /\ ~chapter_start_pattern(sent_text)
    /\ paragraph_start_pattern(sent_text)
    /\ seg' = [OnParagraph(add_article_to_list(seg), Strip(Group0(sent_text)))
                 EXCEPT !.i = @ + 1]
    /\ UNCHANGED <<orch, enr, sav>>

\* an article branch that leaves the heading sentence out of the content
SegArticleDropsHeading ==
    /\ AtSentence
    /\ sent_text # <<>>
    /\ ~section_start_pattern(sent_text)
    /\ ~chapter_start_pattern(sent_text)
    /\ ~paragraph_start_pattern(sent_text)
    /\ article_start_pattern(sent_text)
    /\ seg' = [add_article_to_list(seg) EXCEPT
                 !.current_article_full_title = Some(Strip(Group0(sent_text))),
                 !.current_article_content = <<>>,
                 !.opened = seg.i + 1,
                 !.i = @ + 1]
    /\ UNCHANGED <<orch, enr, sav>>

\* `elif article_match:`: flush, then the heading opens the next article and
\* is its first line
SegArticle ==
    /\ AtSentence
    /\ sent_text # <<>>
    /\ ~section_start_pattern(sent_text)
    /\ ~chapter_start_pattern(sent_text)
    /\ ~paragraph_start_pattern(sent_text)
    /\ article_start_pattern(sent_text)
    /\ seg' = [add_article_to_list(seg) EXCEPT
                 !.current_article_full_title = Some(Strip(Group0(sent_text))),
                 !.current_article_content = <<sent_text>>,
                 !.opened = seg.i + 1,
                 !.i = @ + 1]
    /\ UNCHANGED <<orch, enr, sav>>

\* `else:` a sentence of the body, kept only inside an article
SegBody ==
    /\ AtSentence
    /\ sent_text # <<>>
    /\ ~section_start_pattern(sent_text)
    /\ ~chapter_start_pattern(sent_text)
    /\ ~paragraph_start_pattern(sent_text)
    /\ ~article_start_pattern(sent_text)
    /\ seg' = [seg EXCEPT
                 !.current_article_content =
                     IF Truthy(seg.current_article_full_title)
                     THEN Append(@, sent_text) ELSE @,
                 !.i = @ + 1]
    /\ UNCHANGED <<orch, enr, sav>>

\* after the loop: the last flush, and the list is returned
SegReturn ==
    /\ seg.pc = "loop"
    /\ seg.i = Len(seg.sents)
    /\ seg' = [add_article_to_list(seg) EXCEPT !.pc = "done"]
    /\ UNCHANGED <<orch, enr, sav>>

SegNext ==
    \/ SegBlank
    \/ SegSection
    \/ SegChapter
    \/ SegParagraph
    \/ SegArticle
    \/ SegBody
    \/ SegReturn

SegSpec == SegInit /\ [][SegNext]_vars

\* ------------------------------------------------ extract_keywords_and_topic
MaxTokens == 3      \* tokens in an article text drawn from the vocabulary
MaxKeywords == 2    \* num_keywords asked for with such a text
MaxLemmas == 8      \* distinct lemmas in an article text of plain words
DEFAULT_NUM_KEYWORDS == 7

\* a spaCy token: lemma_, the three flags, text.strip() == "" (blank), and
\* broken: reading its attributes raises
Token(lemma, kind) ==
    [lemma_ |-> lemma, is_stop |-> kind = "stop", is_punct |-> kind = "punct",
     like_num |-> kind = "num", blank |-> kind = "space",
     broken |-> kind = "broken"]

Tokens ==
    {Token("law", "word"), Token("Law", "word"), Token("court", "word"),
     Token("ex", "word"), Token("the", "stop"), Token(",", "punct"),
     Token("12", "num"), Token(" ", "space"), Token("act", "broken")}

\* the token streams of the article titles
Titles ==
    {<<>>,
     <<Token("Law", "word"), Token("the", "stop")>>,
     <<Token("court", "word"), Token("12", "num")>>,
     <<Token("act", "broken")>>}

\* a text of n different plain words
PlainText(n) == [i \in 1..n |-> Token("lemma" \o ToString(i), "word")]

\* the calls: short texts with a small num_keywords, and texts of plain words
\* with the default
EnrichCalls ==
    {<<text, title, n>> : text \in SeqsUpTo(Tokens, MaxTokens),
                          title \in Titles, n \in 0..MaxKeywords}
    \cup {<<PlainText(n), <<>>, DEFAULT_NUM_KEYWORDS>> : n \in 1..MaxLemmas}

\* str.lower() on the lemmas in use
LemmaLower(s) == CASE s = "Law" -> "law" [] OTHER -> s

\* `not token.is_stop and not token.is_punct and not token.like_num`
Counts(tok) == ~tok.is_stop /\ ~tok.is_punct /\ ~tok.like_num

\* a Counter: the keys in insertion order, and their counts
EmptyCounter == [order |-> <<>>, count |-> <<>>]
Increment(c, k) ==
    IF k \in DOMAIN c.count
    THEN [c EXCEPT !.count[k] = @ + 1]
    ELSE [order |-> Append(c.order, k), count |-> Put(c.count, k, 1)]

RECURSIVE SortedByCount(_, _)
\* the keys, highest count first, equal counts in the order given
SortedByCount(keys, count) ==
    IF keys = <<>> THEN <<>>
    ELSE LET best == CHOOSE i \in 1..Len(keys) :
                        /\ \A k \in 1..Len(keys) : count[keys[k]] <= count[keys[i]]
                        /\ \A k \in 1..(i - 1) : count[keys[k]] < count[keys[i]]
             rest == [k \in 1..(Len(keys) - 1) |->
                         IF k < best THEN keys[k] ELSE keys[k + 1]]
         IN  <<keys[best]>> \o SortedByCount(rest, count)

\* Counter.most_common()
most_common(c) == SortedByCount(c.order, c.count)

RECURSIVE SelectSeq2(_, _)
\* the items longer than 2 characters that are no title lemma, in order
SelectSeq2(items, title_tokens) ==
    IF items = <<>> THEN <<>>
    ELSE LET rest == SelectSeq2(Tail(items), title_tokens)
         IN  IF Len(Head(items)) > 2 /\ Head(items) \notin title_tokens
             THEN <<Head(items)>> \o rest ELSE rest

\* a slice that keeps one keyword too many
SliceOneMore(s, n) == SubSeq(s, 1, IF n + 1 < Len(s) THEN n + 1 ELSE Len(s))

\* s[:n] for n >= 0
Slice(s, n) == SubSeq(s, 1, IF n < Len(s) THEN n ELSE Len(s))

\* the locals of extract_keywords_and_topic when it is called
EnrLocals(text, title, n) ==
    [pc |-> "title", text |-> text, title |-> title, num_keywords |-> n,
     i |-> 0, title_tokens |-> {}, candidates |-> EmptyCounter,
     keywords |-> <<>>, topic |-> ""]

EnrInit ==
    /\ Started
    /\ enr \in {EnrLocals(c[1], c[2], c[3]) : c \in EnrichCalls}
    /\ seg = Idle /\ sav = Idle

\* the set comprehension over the title's tokens
EnrTitle ==
    /\ enr.pc = "title"
    /\ \A k \in 1..Len(enr.title) : ~enr.title[k].broken
    /\ enr' = [enr EXCEPT
                 !.pc = "count",
                 !.title_tokens =
                     {LemmaLower(enr.title[k].lemma_) :
                        k \in {x \in 1..Len(enr.title) : Counts(enr.title[x])}}]
    /\ UNCHANGED <<orch, seg, sav>>

\* a token of the title raises: nothing catches it
EnrTitleRaises ==
    /\ enr.pc = "title"
    /\ \E k \in 1..Len(enr.title) : enr.title[k].broken
    /\ enr' = [enr EXCEPT !.pc = "raised"]
    /\ UNCHANGED <<orch, seg, sav>>

\* one iteration of `for token in doc`
EnrCount ==
    /\ enr.pc = "count"
    /\ enr.i < Len(enr.text)
    /\ LET token == enr.text[enr.i + 1]
           lemma == LemmaLower(token.lemma_)
       IN  /\ ~token.broken
           /\ enr' = [enr EXCEPT
                        !.i = @ + 1,
                        !.candidates =
                            IF Counts(token) /\ ~token.blank
                               /\ lemma \notin enr.title_tokens
                            THEN Increment(@, lemma) ELSE @]
    /\ UNCHANGED <<orch, seg, sav>>

\* a token of the text raises: the loop has no try, the exception leaves the
\* function
EnrCountRaises ==
    /\ enr.pc = "count"
    /\ enr.i < Len(enr.text)
    /\ enr.text[enr.i + 1].broken
    /\ enr' = [enr EXCEPT !.pc = "raised"]
    /\ UNCHANGED <<orch, seg, sav>>

\* after the loop: filter, slice, topic, return
EnrReturn ==
    /\ enr.pc = "count"
    /\ enr.i = Len(enr.text)
    /\ LET filtered_candidates ==
               SelectSeq2(most_common(enr.candidates), enr.title_tokens)
           keywords == Slice(filtered_candidates, enr.num_keywords)
       IN  enr' = [enr EXCEPT
                     !.pc = "done",
                     !.keywords = keywords,
                     !.topic = IF keywords # <<>> THEN keywords[1]
                               ELSE "General provision"]
    /\ UNCHANGED <<orch, seg, sav>>

EnrNext ==
    \/ EnrTitle
    \/ EnrTitleRaises
    \/ EnrCount
    \/ EnrCountRaises
    \/ EnrReturn

EnrSpec == EnrInit /\ [][EnrNext]_vars

\* ------------------------------------------------- save_articles_to_markdown
MaxDescr == 5       \* characters of an article's descriptive title
MaxBatch == 3       \* articles in a list of several handed to the writer
max_total_filename_length == 200

\* Here a string is the sequence of its characters.
Rep(c, n) == [i \in 1..n |-> c]

RECURSIVE Without(_, _)
\* re.sub(r'[\\/:*?"<>|]', '', text)
Without(text, chars) ==
    IF text = <<>> THEN <<>>
    ELSE IF Head(text) \in chars THEN Without(Tail(text), chars)
    ELSE <<Head(text)>> \o Without(Tail(text), chars)

sanitize_string_for_filename(text, max_length) ==
    LET kept == Without(text, {"\\", "/", ":", "*", "?", "\"", "<", ">", "|"})
        replaced == [i \in 1..Len(kept) |-> IF kept[i] = " " THEN "_" ELSE kept[i]]
    IN  Slice(Strip(replaced), max_length)

\* A heading is what the two regular expressions find in it: id, the match of
\* WORD\s*\d+(?:\.\d+)* (empty when there is none), and rest, what is left of
\* an article title when its leading number is cut off.
Heading(id, rest) == [id |-> id, rest |-> rest]

\* a heading "W 11...1" with k digits
Numbered(word, k, rest) == Heading(<<word, " ">> \o Rep("1", k), rest)

get_structure_filename_id(title) ==
    IF title.id # <<>> THEN sanitize_string_for_filename(title.id, 50) ELSE <<>>

RECURSIVE JoinUnderscore(_)
\* "_".join(filter(None, parts))
JoinUnderscore(parts) ==
    IF parts = <<>> THEN <<>>
    ELSE IF Head(parts) = <<>> THEN JoinUnderscore(Tail(parts))
    ELSE LET rest == JoinUnderscore(Tail(parts))
         IN  IF rest = <<>> THEN Head(parts) ELSE Head(parts) \o <<"_">> \o rest

\* "_".join(sanitize(k, 20) for k in keywords[:2])
keyword_segment(keywords) ==
    LET two == Slice(keywords, 2)
    IN  IF two = <<>> THEN <<>>
        ELSE IF Len(two) = 1 THEN sanitize_string_for_filename(two[1], 20)
        ELSE sanitize_string_for_filename(two[1], 20) \o <<"_">>
             \o sanitize_string_for_filename(two[2], 20)

\* lines 276-318: the name before the length check
SynthesizedName(doc_base_name, a) ==
    LET opt(t) == IF t # None THEN <<get_structure_filename_id(t[1])>> ELSE <<>>
        article_id_part == get_structure_filename_id(a.article_title)
        descriptive == sanitize_string_for_filename(Strip(a.article_title.rest), 50)
        filename_parts ==
            <<sanitize_string_for_filename(doc_base_name, 40)>>
            \o opt(a.section_title) \o opt(a.chapter_title) \o opt(a.paragraph_title)
            \o <<article_id_part, descriptive, keyword_segment(a.keywords)>>
    IN  JoinUnderscore(filename_parts) \o <<".", "m", "d">>

\* os.path.splitext of a name without directory separators: the extension
\* starts at the last dot, unless only dots come before it
splitext(name) ==
    LET dots == {i \in 1..Len(name) : name[i] = "."}
        last == CHOOSE i \in dots : \A k \in dots : k <= i
    IN  IF dots = {} \/ \A k \in 1..(last - 1) : name[k] = "."
        THEN <<name, <<>>>>
        ELSE <<SubSeq(name, 1, last - 1), SubSeq(name, last, Len(name))>>

\* a cut of the whole name, extension included
CutWholeName(filename) == Slice(filename, max_total_filename_length)

\* lines 321-323: base[:max - len(ext)] + ext
CutName(filename) ==
    LET base == splitext(filename)[1]
        ext == splitext(filename)[2]
    IN  Slice(base, max_total_filename_length - Len(ext)) \o ext

\* document base names, and the fields an article can carry
BaseNames == {<<"a">>, <<"a", ".", "b">>, <<"?", "a", " ", "/", "b">>, Rep("a", 45)}
StructureTitles(word) == {None, Some(Numbered(word, 1, <<>>)), Some(Numbered(word, 60, <<>>))}
KeywordLists ==
    {<<>>, <<<<"k", ".", "w">>>>, <<Rep("k", 25), <<"l", "a", "w">>, <<"x">>>>}
Articles ==
    [article_title : {Numbered("S", k, Rep("t", d)) : k \in {1, 48}, d \in 0..MaxDescr},
     section_title : StructureTitles("R"),
     chapter_title : StructureTitles("G"),
     paragraph_title : {None, Some(Numbered("P", 60, <<>>))},
     keywords : KeywordLists]

\* an article of a batch of several: "S 1...1" with k digits and nothing else
BatchArticle(k) ==
    [article_title |-> Numbered("S", k, <<>>), section_title |-> None,
     chapter_title |-> None, paragraph_title |-> None, keywords |-> <<>>]

\* the lists save_articles_to_markdown is called with: none, one article of
\* any shape, or several plain ones
Batches ==
    {<<>>} \cup {<<a>> : a \in Articles}
    \cup {[k \in 1..n |-> BatchArticle(k)] : n \in 2..MaxBatch}

\* the locals of save_articles_to_markdown at the loop; i is enumerate's index.
\* attempts and log are history: the open() calls made for the current
\* article, and those made for each article the loop is through with
SaveLocals(doc_base_name, articles) ==
    [pc |-> IF articles = <<>> THEN "return" ELSE "name",
     doc_base_name |-> doc_base_name, articles |-> articles, i |-> 0,
     joined |-> <<>>, filename |-> <<>>, fallback_filename |-> <<>>,
     created_files |-> <<>>, files_created |-> None,
     attempts |-> <<>>, log |-> <<>>]

SaveInit ==
    /\ Started
    /\ sav \in {SaveLocals(b, as) : b \in BaseNames, as \in Batches}
    /\ seg = Idle /\ enr = Idle

\* the name is put together; joined is history, the name as first built
SaveName ==
    /\ sav.pc = "name"
    /\ LET filename == SynthesizedName(sav.doc_base_name, sav.articles[sav.i + 1])
       IN  sav' = [sav EXCEPT !.pc = "length", !.joined = filename,
                              !.filename = filename]
    /\ UNCHANGED <<orch, seg, enr>>

\* `if len(filename) > max_total_filename_length:` taken
SaveCut ==
    /\ sav.pc = "length"
    /\ Len(sav.filename) > max_total_filename_length
    /\ sav' = [sav EXCEPT !.pc = "open", !.filename = CutName(@)]
    /\ UNCHANGED <<orch, seg, enr>>

\* the name is short enough
SaveKeep ==
    /\ sav.pc = "length"
    /\ Len(sav.filename) <= max_total_filename_length
    /\ sav' = [sav EXCEPT !.pc = "open"]
    /\ UNCHANGED <<orch, seg, enr>>

\* one call of open() with its outcome, for the history
Attempt(name, ok) == [name |-> name, ok |-> ok]

\* the end of an iteration: the next article, or the loop is over
NextArticle(s) ==
    [s EXCEPT !.log = Append(@, s.attempts),
              !.attempts = <<>>,
              !.i = IF s.i + 1 < Len(s.articles) THEN @ + 1 ELSE @,
              !.pc = IF s.i + 1 < Len(s.articles) THEN "name" ELSE "return"]

\* f"{sanitized_doc_name_prefix}_Article_{i+1}.md"
FallbackName(doc_base_name, i) ==
    sanitize_string_for_filename(doc_base_name, 40)
    \o <<"_", "A", "r", "t", "i", "c", "l", "e", "_">> \o <<ToString(i + 1)>>
    \o <<".", "m", "d">>

\* the file is opened and written under the name built
SaveWrite ==
    /\ sav.pc = "open"
    /\ sav' = NextArticle([sav EXCEPT
                 !.created_files = Append(@, sav.filename),
                 !.attempts = Append(@, Attempt(sav.filename, TRUE))])
    /\ UNCHANGED <<orch, seg, enr>>

\* `except OSError`: the fallback name is built
SaveOSError ==
    /\ sav.pc = "open"
    /\ sav' = [sav EXCEPT
                 !.pc = "fallback",
                 !.fallback_filename = FallbackName(sav.doc_base_name, sav.i),
                 !.attempts = Append(@, Attempt(sav.filename, FALSE))]
    /\ UNCHANGED <<orch, seg, enr>>

\* a fallback write that is not put on the list of created files
SaveFallbackWriteUncounted ==
    /\ sav.pc = "fallback"
    /\ sav' = NextArticle([sav EXCEPT
                 !.attempts = Append(@, Attempt(sav.fallback_filename, TRUE))])
    /\ UNCHANGED <<orch, seg, enr>>

\* the file is opened and written under the fallback name
SaveFallbackWrite ==
    /\ sav.pc = "fallback"
    /\ sav' = NextArticle([sav EXCEPT
                 !.created_files = Append(@, sav.fallback_filename),
                 !.attempts = Append(@, Attempt(sav.fallback_filename, TRUE))])
    /\ UNCHANGED <<orch, seg, enr>>

\* the inner `except OSError`: logged, `continue`
SaveFallbackOSError ==
    /\ sav.pc = "fallback"
    /\ sav' = NextArticle([sav EXCEPT
                 !.attempts = Append(@, Attempt(sav.fallback_filename, FALSE))])
    /\ UNCHANGED <<orch, seg, enr>>

\* the list is returned and process_document reports its length
SaveReturn ==
    /\ sav.pc = "return"
    /\ sav' = [sav EXCEPT !.pc = "done",
                          !.files_created = Some(Len(sav.created_files))]
    /\ UNCHANGED <<orch, seg, enr>>

SaveNext ==
    \/ SaveName
    \/ SaveCut
    \/ SaveKeep
    \/ SaveWrite
    \/ SaveOSError
    \/ SaveFallbackWrite
    \/ SaveFallbackOSError
    \/ SaveReturn

SaveSpec == SaveInit /\ [][SaveNext]_vars

\* ------------------------------------------------------------------ claims
InFlight(st) == st \in {PENDING, PROCESSING}
Terminal(st) == st \in {COMPLETED, FAILED}
Kept == (DOMAIN jobs) \cap (DOMAIN jobs')

\* C1: a job's status changes only Pending->Processing, Processing->Completed
\* or Processing->Failed; Completed and Failed are never left.
StatusTransitions ==
    [][\A j \in Kept :
         jobs'[j].status # jobs[j].status =>
            <<jobs[j].status, jobs'[j].status>> \in
               {<<PENDING, PROCESSING>>, <<PROCESSING, COMPLETED>>,
                <<PROCESSING, FAILED>>}]_vars

\* C1 witness: one job has ended Completed and another Failed
BothTerminalsSeen ==
    \E j, k \in DOMAIN jobs :
       jobs[j].status = COMPLETED /\ jobs[k].status = FAILED

\* C2: no step removes the registry entry or the workspace of a job that is
\* Pending or Processing (so its worker finds both when it runs).
SweepSparesInFlight ==
    [][\A j \in DOMAIN jobs :
         InFlight(jobs[j].status) =>
            /\ j \in DOMAIN jobs'
            /\ job_dir(j) \in dirs']_vars

\* C3: a Failed job carries a non-empty error string.
FailedHasError ==
    \A j \in DOMAIN jobs :
       jobs[j].status = FAILED =>
          jobs[j].error # None /\ jobs[j].error[1] # ""

\* C4: progress stays within 0..100 and never decreases while the job is
\* Pending or Processing.
ProgressMonotone ==
    [][\A j \in DOMAIN jobs' :
         /\ jobs'[j].progress \in 0..100
         /\ (j \in DOMAIN jobs /\ InFlight(jobs'[j].status)) =>
               jobs'[j].progress >= jobs[j].progress]_vars

\* C4 witness: the worker is at the second of two documents, progress 45
HalfWayThrough ==
    \E j \in DOMAIN jobs :
       /\ jobs[j].status = PROCESSING
       /\ jobs[j].progress = 45
       /\ j \in DOMAIN task /\ task[j].pc = "doc"

\* C5: a download hands out the archive only for a Completed job; an unknown id
\* gets not-found, a Pending, Processing or Failed job gets 400, a Completed job
\* without its archive file gets not-found, and a rejected download schedules no
\* cleanup and changes nothing in the registry.
DownloadOnlyCompleted ==
    [][resp'.op = "download" =>
         LET j == resp'.job IN
         /\ j \notin DOMAIN jobs =>
               resp'.code = 404 /\ resp'.detail = "Job not found"
         /\ (j \in DOMAIN jobs /\ jobs[j].status \in {PENDING, PROCESSING, FAILED}) =>
               resp'.code = 400
         /\ (j \in DOMAIN jobs /\ jobs[j].status = COMPLETED
             /\ zip_path(j) \notin files) =>
               resp'.code = 404 /\ resp'.detail = "Result file not found"
         /\ resp'.code = 200 =>
               /\ j \in DOMAIN jobs /\ jobs[j].status = COMPLETED
               /\ zip_path(j) \in files
         /\ resp'.code # 200 =>
               /\ cleanups' = cleanups
               /\ jobs' = jobs /\ dirs' = dirs /\ files' = files]_vars

\* C5 witness: a Completed job still registered, its archive already removed,
\* is asked for and the answer is not-found
ArchiveMissingAnswered ==
    /\ resp.op = "download"
    /\ resp.detail = "Result file not found"
    /\ resp.job \in DOMAIN jobs
    /\ jobs[resp.job].status = COMPLETED

CleanupsDone(j) == served[j] - cleanups[j].scheduled - cleanups[j].mid

Refusable(fl) ==
    \/ fl = <<>>
    \/ \E i \in 1..Len(fl) : Lower(fl[i].ext) \notin {".docx", ".pdf"}

\* C7: an upload that is empty or holds a file of another type than .docx/.pdf
\* is answered 400 and creates no registry entry, directory, file, suspended
\* upload or worker.
RejectedUploadCreatesNothing ==
    [][\A fl \in FileLists, mm \in BOOLEAN :
         (Refusable(fl) /\ upload_documents(fl, mm)) =>
            /\ resp'.op = "upload" /\ resp'.code = 400
            /\ DOMAIN jobs' \subseteq DOMAIN jobs
            /\ dirs' \subseteq dirs
            /\ files' \subseteq files
            /\ task' = task
            /\ uploads' = uploads
            /\ nextId' = nextId]_vars

\* C7 witness: a request with a valid and an invalid file has been refused
\* while another job exists
MixedUploadRefused ==
    /\ resp.op = "upload"
    /\ resp.code = 400
    /\ resp.detail = "Unsupported file type: c.txt. Only DOCX and PDF are allowed."
    /\ DOMAIN jobs # {}

\* the step of job j's worker that runs the except block
ExceptStep(j) ==
    /\ j \in DOMAIN task /\ task[j].pc = "except"
    /\ j \notin DOMAIN task'
    /\ j \in Kept

\* C8 as stated: a failure sets status, progress and error and leaves every
\* other field of the record as it was.
FailureTouchesThreeFields ==
    [][\A j \in JobIds :
         ExceptStep(j) =>
            jobs'[j] = [jobs[j] EXCEPT !.status = FAILED, !.progress = 0,
                                       !.error = Some(task[j].exc[1])]]_vars

\* C8 amended: a failure sets status Failed, progress 0, error to the failure
\* description and message to "Processing failed"; created_at, files_count,
\* merge_mode, total_articles and the archive location are unchanged, the last
\* two still unset.
FailureFrame ==
    [][\A j \in JobIds :
         ExceptStep(j) =>
            /\ jobs'[j].status = FAILED
            /\ jobs'[j].progress = 0
            /\ jobs'[j].error = Some(task[j].exc[1])
            /\ jobs'[j].message = "Processing failed"
            /\ jobs'[j].created_at = jobs[j].created_at
            /\ jobs'[j].files_count = jobs[j].files_count
            /\ jobs'[j].merge_mode = jobs[j].merge_mode
            /\ jobs'[j].total_articles = None
            /\ jobs'[j].zip_path = None]_vars

\* C8 witness: a job has failed with a description, after progress had been made
FailedWithDescription ==
    \E j \in DOMAIN jobs :
       /\ jobs[j].status = FAILED
       /\ jobs[j].error = Some("Package not found")
       /\ jobs[j].progress = 0
       /\ jobs[j].files_count = 2

\* the files below the output directory of job j
OutputFiles(j, fs) == {p \in fs : IsPrefix(output_base_dir(j), p)}

\* C9: when a stage has raised, the worker's next step ends the job Failed with
\* no archive; a Failed job stays Failed, has no worker and gets no further
\* output file.
FailureAbortsJob ==
    [][\A j \in DOMAIN jobs :
         /\ (j \in DOMAIN task /\ task[j].pc = "except" /\ task' # task) =>
               /\ j \notin DOMAIN task'
               /\ j \in DOMAIN jobs' /\ jobs'[j].status = FAILED
               /\ zip_path(j) \notin files'
               /\ OutputFiles(j, files') = OutputFiles(j, files)
         /\ jobs[j].status = FAILED =>
               /\ j \notin DOMAIN task'
               /\ j \in DOMAIN jobs' => jobs'[j].status = FAILED
               /\ OutputFiles(j, files') \subseteq OutputFiles(j, files)
               /\ zip_path(j) \notin files']_vars

\* C9 witness: a two-document job failed after its first document was written
FailedAfterFirstDocument ==
    \E j \in DOMAIN jobs :
       /\ jobs[j].status = FAILED
       /\ jobs[j].files_count = 2
       /\ OutputFiles(j, files) # {}
       /\ zip_path(j) \notin files

\* C10: every path a job writes or reads lies inside its own workspace, and no
\* path is written or read by two jobs.
WorkspaceExclusive ==
    \A j \in JobIds :
       /\ outside[j] = {}
       /\ \A k \in JobIds \ {j} :
             \A p \in outside[j] :
                p \notin outside[k] /\ ~IsPrefix(job_dir(k), p)

\* C11: no job waits on another: while the worker of one job is between its
\* first and its last document, the queued worker of another job can take its
\* first step and a status request for that job can be answered.
WorkerYields ==
    \A a, b \in JobIds :
       (/\ a # b
        /\ a \in DOMAIN task /\ task[a].pc = "doc" /\ task[a].idx >= 1
        /\ b \in DOMAIN task /\ task[b].pc = "queued"
        /\ b \in DOMAIN jobs)
       => /\ ENABLED WorkerStart(b)
          /\ ENABLED get_job_status(b)

RECURSIVE SumSeq(_)
SumSeq(s) == IF s = <<>> THEN 0 ELSE Head(s) + SumSeq(Tail(s))

\* the step in which the worker of job j ends Completed
CompletingStep(j) ==
    /\ j \in DOMAIN task /\ task[j].pc = "archive"
    /\ j \notin DOMAIN task'
    /\ j \in DOMAIN jobs' /\ jobs'[j].status = COMPLETED

\* C12: in merge mode a job whose documents produced a_1..a_n articles
\* completes with total_articles = a_1+...+a_n and an archive whose entries all
\* lie directly in merged_articles/ and number a_1+...+a_n, one file per
\* article.
MergeArchiveHoldsEveryArticle ==
    [][\A j \in JobIds :
         (CompletingStep(j) /\ task[j].merge_mode) =>
            LET archive == create_zip_archive(j, files')
                sum == SumSeq(task[j].produced)
            IN  /\ jobs'[j].total_articles = Some(sum)
                /\ \A e \in archive : Len(e) = 2 /\ e[1] = "merged_articles"
                /\ Cardinality(archive) = sum]_vars

\* C17: while a document is being processed the progress is
\* floor(90 * completed_docs / total_docs), completed_docs the documents
\* already written; it is 95 while the archive is built and 100 exactly when
\* the job is Completed.
ProgressFormula ==
    \A j \in DOMAIN jobs :
       /\ (j \in DOMAIN task /\ task[j].pc = "doc") =>
             jobs[j].progress = (90 * task[j].idx) \div Len(task[j].file_paths)
       /\ (j \in DOMAIN task /\ task[j].pc = "archive") => jobs[j].progress = 95
       /\ (jobs[j].progress = 100) <=> (jobs[j].status = COMPLETED)

\* C13: every Article segmentation emits has a non-empty title and a non-empty
\* content after trimming, and a flush with an unset title or an empty buffer
\* emits nothing.
EmittedArticlesNonEmpty ==
    [][/\ \A k \in 1..Len(seg'.langchain_articles) :
             LET a == seg'.langchain_articles[k]
             IN  /\ Strip(a.metadata.article_title) # <<>>
                 /\ Strip(a.page_content) # <<>>
       /\ (~Truthy(seg.current_article_full_title)
           \/ seg.current_article_content = <<>>)
             => seg'.langchain_articles = seg.langchain_articles]_vars

\* C13 witness: a section heading flushed an empty accumulator, then one
\* article was opened, filled and emitted at the end of the text
OneArticleAfterEmptyFlush ==
    /\ seg.pc = "done"
    /\ seg.sents = <<SectionOne, ArticleTwo, BlankSent, BodySent>>
    /\ Len(seg.langchain_articles) = 1
    /\ seg.opened_at = <<2>>

\* the headings of the text being segmented, by position
IsSectionAt(i) == section_start_pattern(Strip(seg.sents[i]))
IsChapterAt(i) == ~IsSectionAt(i) /\ chapter_start_pattern(Strip(seg.sents[i]))
IsParagraphAt(i) ==
    /\ ~IsSectionAt(i) /\ ~IsChapterAt(i)
    /\ paragraph_start_pattern(Strip(seg.sents[i]))
HeadingText(i) == Strip(Group0(Strip(seg.sents[i])))
Last(S) == CHOOSE x \in S : \A y \in S : y <= x

\* C14: an emitted Article carries the title of the last section heading before
\* the heading that opened it, whether or not chapter headings came in between;
\* and when no paragraph-marker heading lies between the last chapter heading
\* and its own heading, it carries no paragraph marker.
HierarchyCarriedOver ==
    seg.pc \in {"loop", "done"} =>
       \A k \in 1..Len(seg.langchain_articles) :
          LET m == seg.langchain_articles[k].metadata
              p == seg.opened_at[k]
              secs == {i \in 1..(p - 1) : IsSectionAt(i)}
              chaps == {i \in 1..(p - 1) : IsChapterAt(i)}
              pars == {i \in 1..(p - 1) : IsParagraphAt(i)}
          IN  /\ secs # {} => m.section_title = Some(HeadingText(Last(secs)))
              /\ (chaps # {} /\ \A i \in pars : i < Last(chaps)) =>
                    m.paragraph_title = None

\* C14 witness: section, paragraph marker, chapter, article: the Article keeps
\* the section and the chapter and has lost the paragraph marker
SectionKeptParagraphCleared ==
    /\ seg.pc = "done"
    /\ seg.sents = <<SectionOne, ParagraphOne, ChapterOne, ArticleOne>>
    /\ Len(seg.langchain_articles) = 1
    /\ seg.langchain_articles[1].metadata.section_title = Some(SectionOne)
    /\ seg.langchain_articles[1].metadata.chapter_title = Some(ChapterOne)
    /\ seg.langchain_articles[1].metadata.paragraph_title = None

\* the title's filtered lemmas
TitleLemmas(title) ==
    {LemmaLower(title[k].lemma_) :
       k \in {x \in 1..Len(title) :
                ~title[x].is_stop /\ ~title[x].is_punct /\ ~title[x].like_num}}

\* C15: the keyword list has at most num_keywords entries, no duplicates, only
\* lemmas longer than 2 characters, and no lemma of the title's filtered lemmas.
KeywordsBounded ==
    enr.pc = "done" =>
       /\ Len(enr.keywords) <= enr.num_keywords
       /\ \A a, b \in 1..Len(enr.keywords) :
             enr.keywords[a] = enr.keywords[b] => a = b
       /\ \A a \in 1..Len(enr.keywords) :
             /\ Len(enr.keywords[a]) > 2
             /\ enr.keywords[a] \notin TitleLemmas(enr.title)

\* C15 witness: a text with more candidates than the default num_keywords has
\* been cut to seven keywords
KeywordsCutToDefault ==
    /\ enr.pc = "done"
    /\ enr.num_keywords = DEFAULT_NUM_KEYWORDS
    /\ Len(enr.keywords) = DEFAULT_NUM_KEYWORDS
    /\ Len(enr.candidates.order) > DEFAULT_NUM_KEYWORDS

\* C18: when classifying a token of the text fails, the token is skipped: the
\* loop goes on with the next token, the candidates as they were, and the
\* function does not end by raising.
TokenFailureSkipped ==
    [][(/\ enr.pc = "count"
        /\ enr.i < Len(enr.text)
        /\ enr.text[enr.i + 1].broken)
       => /\ enr'.pc = "count"
          /\ enr'.i = enr.i + 1
          /\ enr'.candidates = enr.candidates]_vars

EndsInMd(name) ==
    Len(name) >= 3 /\ SubSeq(name, Len(name) - 2, Len(name)) = <<".", "m", "d">>

\* C16: the primary file name of an article is at most 200 characters long and
\* ends in .md; when the name as first built exceeds 200 characters, the
\* result is exactly 200 characters long.
FilenameWithinLimit ==
    sav.pc = "open" =>
       /\ Len(sav.filename) <= 200
       /\ EndsInMd(sav.filename)
       /\ Len(sav.joined) > 200 => Len(sav.filename) = 200

\* C16 witness: a name of 201 characters has been cut to 200
NameCutByOne ==
    /\ sav.pc = "open"
    /\ Len(sav.joined) = 201
    /\ Len(sav.filename) = 200
    /\ EndsInMd(sav.filename)

\* C19: whenever a status reader can run, every job record is consistent, and
\* so is every status answer: Completed implies progress 100, total_articles
\* and the archive location set; Failed implies progress 0 and error set;
\* Pending or Processing implies total_articles, error and archive location
\* unset.
RecordNeverTorn ==
    /\ running = None =>
          \A j \in DOMAIN jobs :
             LET rec == jobs[j]
             IN  /\ rec.status = COMPLETED =>
                       /\ rec.progress = 100
                       /\ rec.total_articles # None
                       /\ rec.zip_path # None
                 /\ rec.status = FAILED =>
                       rec.progress = 0 /\ rec.error # None
                 /\ InFlight(rec.status) =>
                       /\ rec.total_articles = None
                       /\ rec.error = None
                       /\ rec.zip_path = None
    /\ (resp.op = "status" /\ resp.code = 200) =>
          /\ resp.status = COMPLETED =>
                resp.progress = 100 /\ resp.total_articles # None
          /\ resp.status = FAILED => resp.progress = 0 /\ resp.error # None
          /\ InFlight(resp.status) =>
                resp.total_articles = None /\ resp.error = None

\* C19 witness: a reader is told of a Completed job with its total while
\* another job stands Failed in the registry
CompletedReadBesideFailed ==
    /\ resp.op = "status" /\ resp.code = 200
    /\ resp.status = COMPLETED
    /\ resp.progress = 100
    /\ resp.total_articles = Some(1)
    /\ \E k \in DOMAIN jobs : jobs[k].status = FAILED

\* the steps that run cleanup_old_jobs: upload_documents up to its first
\* suspension, which either refuses the request or allocates a job identifier
SweepStep ==
    \/ resp'.op = "upload" /\ resp'.code = 400
    \/ nextId' # nextId

\* C20: the sweep removes exactly the jobs older than the timeout, registry
\* entry and workspace; a job whose age is at most the timeout keeps its
\* entry, every field of it, and every directory and file of its workspace.
SweepExact ==
    [][SweepStep =>
        /\ DOMAIN jobs' \subseteq DOMAIN jobs
        /\ \A j \in DOMAIN jobs :
              IF now - jobs[j].created_at > CLEANUP_TIMEOUT
              THEN /\ j \notin DOMAIN jobs'
                   /\ \A p \in dirs' \cup files' : ~IsPrefix(job_dir(j), p)
              ELSE /\ j \in DOMAIN jobs'
                   /\ jobs'[j] = jobs[j]
                   /\ {p \in dirs' : IsPrefix(job_dir(j), p)}
                         = {p \in dirs : IsPrefix(job_dir(j), p)}
                   /\ {p \in files' : IsPrefix(job_dir(j), p)}
                         = {p \in files : IsPrefix(job_dir(j), p)}]_vars

\* C20 witness: at the sweep of a refused upload a job two hours old has gone,
\* workspace and all, and a job exactly one hour old is still registered
SweptOneKeptOne ==
    /\ resp.op = "upload" /\ resp.code = 400
    /\ \E j \in DOMAIN jobs :
          /\ now - jobs[j].created_at = CLEANUP_TIMEOUT
          /\ job_dir(j) \in dirs
    /\ \E k \in DOMAIN task : k \notin DOMAIN jobs /\ job_dir(k) \notin dirs

\* C21: a job becomes Completed only in the step that follows the archive's
\* creation, after every document has been processed, and its total_articles
\* is then the sum of the articles segmentation produced per document.
CompletedAfterAllDocuments ==
    [][\A j \in DOMAIN jobs' :
         (jobs'[j].status = COMPLETED
          /\ (j \notin DOMAIN jobs \/ jobs[j].status # COMPLETED)) =>
            /\ CompletingStep(j)
            /\ task[j].idx = Len(task[j].file_paths)
            /\ Len(task[j].produced) = Len(task[j].file_paths)
            /\ jobs'[j].total_articles = Some(SumSeq(task[j].produced))
            /\ zip_path(j) \in files'
            /\ jobs'[j].zip_path = Some(zip_path(j))]_vars

\* C21 witness: three documents, one of them without an article, completed
\* with a total of two
ThreeDocumentsTotalTwo ==
    \E j \in DOMAIN jobs :
       /\ jobs[j].status = COMPLETED
       /\ jobs[j].files_count = 3
       /\ jobs[j].total_articles = Some(2)
       /\ zip_path(j) \in files

\* C22: in separate mode the article files of a document are written only into
\* the container named by its base name, and no container receives article
\* files of two different documents of the job.
OneContainerPerDocument ==
    \A j \in DOMAIN task :
       ~task[j].merge_mode =>
          \A i, k \in 1..Len(task[j].wrote) :
             /\ \A p \in task[j].wrote[i] :
                   Parent(p) = output_base_dir(j) \o <<Stem(task[j].file_paths[i])>>
             /\ i # k =>
                   \A p \in task[j].wrote[i], q \in task[j].wrote[k] :
                      Parent(p) # Parent(q)

\* article headings by position, and headings of any kind
IsArticleAt(i) ==
    /\ ~IsSectionAt(i) /\ ~IsChapterAt(i) /\ ~IsParagraphAt(i)
    /\ article_start_pattern(Strip(seg.sents[i]))
IsHeadingAt(i) ==
    IsSectionAt(i) \/ IsChapterAt(i) \/ IsParagraphAt(i) \/ IsArticleAt(i)
TitleAt(S) == IF S = {} THEN None ELSE Some(HeadingText(Last(S)))

\* C23: the section, chapter and paragraph fields of an emitted Article are the
\* carried state at its article heading: the last section heading before it,
\* the last chapter heading after that section heading, the last paragraph
\* heading after the last section or chapter heading, each absent if none.
HierarchyAtHeading ==
    \A k \in 1..Len(seg.langchain_articles) :
       LET m == seg.langchain_articles[k].metadata
           p == seg.opened_at[k]
           secs == {i \in 1..(p - 1) : IsSectionAt(i)}
           s0 == IF secs = {} THEN 0 ELSE Last(secs)
           chaps == {i \in (s0 + 1)..(p - 1) : IsChapterAt(i)}
           c0 == IF chaps = {} THEN s0 ELSE Last(chaps)
           pars == {i \in (c0 + 1)..(p - 1) : IsParagraphAt(i)}
       IN  /\ m.section_title = TitleAt(secs)
           /\ m.chapter_title = TitleAt(chaps)
           /\ m.paragraph_title = TitleAt(pars)

\* C23 witness: a chapter heading, then a section heading that clears it, a
\* paragraph marker and the article, emitted when the text ends
ChapterClearedBySection ==
    /\ seg.pc = "done"
    /\ seg.sents = <<ChapterOne, SectionOne, ParagraphOne, ArticleOne>>
    /\ Len(seg.langchain_articles) = 1
    /\ seg.langchain_articles[1].metadata.section_title = Some(SectionOne)
    /\ seg.langchain_articles[1].metadata.chapter_title = None
    /\ seg.langchain_articles[1].metadata.paragraph_title = Some(ParagraphOne)

RECURSIVE Ascending(_)
\* the positions of a set in ascending order
Ascending(S) ==
    IF S = {} THEN <<>>
    ELSE LET x == CHOOSE y \in S : \A z \in S : y <= z
         IN  <<x>> \o Ascending(S \ {x})

\* C24: the Articles emitted, with the one still open, are the article-heading
\* sentences read so far, one each and in order, so that the returned list has
\* exactly one Article per article heading; no step that flushes changes the
\* section, chapter or paragraph state except the heading branch's own
\* assignments, and the flush itself changes none of the three.
OneArticlePerHeading ==
    seg.pc \in {"loop", "done"} =>
       LET flushed == add_article_to_list(seg)
       IN  /\ seg.opened_at
                 \o (IF Truthy(seg.current_article_full_title)
                     THEN <<seg.opened>> ELSE <<>>)
              = Ascending({i \in 1..seg.i : IsArticleAt(i)})
           /\ \A k \in 1..Len(seg.langchain_articles) :
                 seg.langchain_articles[k].metadata.article_title
                    = HeadingText(seg.opened_at[k])
           /\ flushed.current_section_title = seg.current_section_title
           /\ flushed.current_chapter_title = seg.current_chapter_title
           /\ flushed.current_paragraph_title = seg.current_paragraph_title

\* C24 witness: two article headings in a row under a section and a chapter
\* heading gave two Articles, both with the section and the chapter
TwoHeadingsInARow ==
    /\ seg.pc = "done"
    /\ seg.sents = <<SectionOne, ChapterOne, ArticleOne, ArticleTwo>>
    /\ seg.opened_at = <<3, 4>>
    /\ \A k \in 1..2 :
          /\ seg.langchain_articles[k].metadata.section_title = Some(SectionOne)
          /\ seg.langchain_articles[k].metadata.chapter_title = Some(ChapterOne)

RECURSIVE Lines(_, _)
\* the trimmed, non-empty sentences at positions from..to, in order
Lines(from, to) ==
    IF from > to THEN <<>>
    ELSE (IF Strip(seg.sents[from]) = <<>> THEN <<>>
          ELSE <<Strip(seg.sents[from])>>) \o Lines(from + 1, to)

\* C25: the content of an emitted Article is its heading sentence followed, in
\* order and joined by newlines, by exactly the non-heading sentences between
\* that heading and the next heading of any kind (or the end of the text).
ContentIsHeadingAndBody ==
    \A k \in 1..Len(seg.langchain_articles) :
       LET p == seg.opened_at[k]
           later == {i \in (p + 1)..Len(seg.sents) : IsHeadingAt(i)}
           q == IF later = {} THEN Len(seg.sents) + 1
                ELSE CHOOSE i \in later : \A y \in later : i <= y
       IN  seg.langchain_articles[k].page_content = JoinLines(Lines(p, q - 1))

\* C25 witness: an article with one body sentence, then a paragraph marker
\* and another body sentence, which is in no Article
BodyOutsideArticleDropped ==
    /\ seg.pc = "done"
    /\ seg.sents = <<ArticleOne, BodySent, ParagraphOne, BodySent>>
    /\ Len(seg.langchain_articles) = 1
    /\ seg.langchain_articles[1].page_content
          = ArticleOne \o <<"\n">> \o Strip(BodySent)

\* the name the code opens first for the article at index i
PrimaryName(i) ==
    LET filename == SynthesizedName(sav.doc_base_name, sav.articles[i + 1])
    IN  IF Len(filename) > max_total_filename_length
        THEN CutName(filename) ELSE filename

RECURSIVE Flatten(_)
Flatten(ss) == IF ss = <<>> THEN <<>> ELSE Head(ss) \o Flatten(Tail(ss))

\* C26: for every article of the batch the writer opens the primary name
\* first; if that fails it opens the fallback name (sanitized base name and
\* the article's index) exactly once more, and if that fails too it goes on to
\* the next article; the writer always returns, and files_created is the
\* number of articles written under either name.
FallbackOnceThenDrop ==
    /\ sav.pc \in {"name", "length", "open", "fallback", "return", "done"} =>
          \A k \in 1..Len(sav.log) :
             LET a == sav.log[k]
             IN  /\ Len(a) \in {1, 2}
                 /\ a[1].name = PrimaryName(k - 1)
                 /\ Len(a) = 1 <=> a[1].ok
                 /\ Len(a) = 2 =>
                       a[2].name = FallbackName(sav.doc_base_name, k - 1)
    /\ sav.pc = "done" =>
          /\ Len(sav.log) = Len(sav.articles)
          /\ LET oks == SelectSeq(Flatten(sav.log), LAMBDA t : t.ok)
             IN  sav.created_files = [n \in 1..Len(oks) |-> oks[n].name]
          /\ sav.files_created
                = Some(Cardinality({k \in 1..Len(sav.log) :
                                      \E n \in 1..Len(sav.log[k]) : sav.log[k][n].ok}))

\* C26 witness: of three articles the first was written under its primary
\* name, the second under the fallback name and the third was dropped
PrimaryFallbackDropped ==
    /\ sav.pc = "done"
    /\ Len(sav.articles) = 3
    /\ sav.log[1] = <<Attempt(PrimaryName(0), TRUE)>>
    /\ sav.log[2] = <<Attempt(PrimaryName(1), FALSE),
                      Attempt(FallbackName(sav.doc_base_name, 1), TRUE)>>
    /\ sav.log[3] = <<Attempt(PrimaryName(2), FALSE),
                      Attempt(FallbackName(sav.doc_base_name, 2), FALSE)>>
    /\ sav.files_created = Some(2)

\* C27: a worker never ends without having set its job's status to Completed
\* or Failed, whatever submissions, sweeps and downloads run in between.
WorkerEndsWithTerminalStatus ==
    [][\A j \in DOMAIN task :
         j \notin DOMAIN task' =>
            j \in DOMAIN jobs' /\ Terminal(jobs'[j].status)]_vars
====
